---------------------------- MODULE Spec2Model ----------------------------
(***************************************************************************)
(* A model of pyServer.py, the Python worker of the wekaPython package:    *)
(* the length-prefixed framing layer (send_response, receive_message),     *)
(* the command dispatch loop (runServer) and its handlers, the variable    *)
(* environment (_local_env) and the output capture buffers (sys.stdout,    *)
(* sys.stderr).                                                            *)
(***************************************************************************)
EXTENDS Integers, Sequences, FiniteSets, TLC

(***************************************************************************)
(* Bounds of the model.                                                    *)
(***************************************************************************)
\* largest number of print events in one behaviour
MaxOut == 2
\* largest number of rows in a dataset
MaxRows == 1

(***************************************************************************)
(* Values held in _local_env.  A Python object is a record; kind "absent"  *)
(* stands for a key that is not in the dictionary, kind "none" for None.   *)
(***************************************************************************)
V(k, n, items, keys, rows) ==
    [kind |-> k, n |-> n, items |-> items, keys |-> keys, rows |-> rows]

Absent      == V("absent", 0, <<>>, {}, 0)
PyNone      == V("none", 0, <<>>, {}, 0)
PyInt(n)    == V("int", n, <<>>, {}, 0)
PyList(s)   == V("list", 0, s, {}, 0)
\* a dict: its keys; items is the list stored under the key "k", if any
PyDict(ks, s) == V("dict", 0, s, ks, 0)
\* a pandas DataFrame of the given number of rows
DataFrame(r) == V("table", 0, <<>>, {}, r)

\* variable names the host uses; "headers" is the key runServer itself creates
Names == {"x", "headers"}
\* relation names the host uses for datasets
FrameNames == {"x"}
\* names the host assigns with set_variable_value
SetNames == {"x"}

(***************************************************************************)
(* pickle: the object codec, over the values above.  A byte is 0..255.     *)
(***************************************************************************)
RECURSIVE PickleInts(_)
PickleInts(s) ==
    IF s = <<>> THEN <<>> ELSE <<75, Head(s)>> \o PickleInts(Tail(s))

PickleBody(v) ==
    CASE v.kind = "none"  -> <<78>>
      [] v.kind = "int"   -> <<75, v.n>>
      [] v.kind = "list"  -> <<93>> \o PickleInts(v.items) \o <<101>>
      [] v.kind = "dict"  ->
            <<125>>
            \o (IF "k" \in v.keys
                THEN <<107, 93>> \o PickleInts(v.items) \o <<101, 115>>
                ELSE <<>>)
            \o (IF "x" \in v.keys THEN <<120, 72, 115>> ELSE <<>>)
      [] v.kind = "table" -> <<84, v.rows>>
      [] OTHER            -> <<>>

pickle_dumps(v) == PickleBody(v) \o <<46>>

RECURSIVE UnpickleInts(_)
\* the integers of a run of (75, n) pairs; <<-1>> when the run is malformed
UnpickleInts(b) ==
    IF b = <<>> THEN <<>>
    ELSE IF Len(b) < 2 \/ b[1] # 75 THEN <<-1>>
    ELSE LET rest == UnpickleInts(SubSeq(b, 3, Len(b)))
         IN  IF rest = <<-1>> THEN <<-1>> ELSE <<b[2]>> \o rest

Unpickled(v) == [ok |-> TRUE, val |-> v]
UnpickleFail == [ok |-> FALSE, val |-> Absent]

\* a dict: the entry under "k" (a list), then the entry under "x" (a header)
UnpickleDict(body) ==
    LET n == Len(body)
        hasX == n >= 4 /\ SubSeq(body, n - 2, n) = <<120, 72, 115>>
        rest == IF hasX THEN SubSeq(body, 1, n - 3) ELSE body
        m == Len(rest)
        xs == IF m >= 5 THEN UnpickleInts(SubSeq(rest, 4, m - 2)) ELSE <<-1>>
    IN  IF m = 1 THEN Unpickled(PyDict(IF hasX THEN {"x"} ELSE {}, <<>>))
        ELSE IF m >= 5 /\ rest[2] = 107 /\ rest[3] = 93 /\ rest[m - 1] = 101
                /\ rest[m] = 115 /\ xs # <<-1>>
        THEN Unpickled(PyDict(IF hasX THEN {"k", "x"} ELSE {"k"}, xs))
        ELSE UnpickleFail

pickle_loads(b) ==
    IF Len(b) < 2 \/ b[Len(b)] # 46 THEN UnpickleFail
    ELSE LET body == SubSeq(b, 1, Len(b) - 1)
             n == Len(body)
         IN  IF body = <<78>> THEN Unpickled(PyNone)
             ELSE IF n = 2 /\ body[1] = 75 THEN Unpickled(PyInt(body[2]))
             ELSE IF n = 2 /\ body[1] = 84 THEN Unpickled(DataFrame(body[2]))
             ELSE IF n >= 2 /\ body[1] = 93 /\ body[n] = 101
             THEN LET xs == UnpickleInts(SubSeq(body, 2, n - 1))
                  IN  IF xs = <<-1>> THEN UnpickleFail
                      ELSE Unpickled(PyList(xs))
             ELSE IF body[1] = 125 THEN UnpickleDict(body)
             ELSE UnpickleFail

(***************************************************************************)
(* base64: three bytes become four characters.  A character of the base64  *)
(* alphabet is its index 0..63, the padding character "=" is 64 and any    *)
(* larger number is a character outside the alphabet.                      *)
(***************************************************************************)
B64Pad == 64

RECURSIVE base64_encode(_)
base64_encode(value) ==
    LET n == Len(value)
    IN  IF n = 0 THEN <<>>
        ELSE IF n = 1
        THEN << value[1] \div 4, (value[1] % 4) * 16, B64Pad, B64Pad >>
        ELSE IF n = 2
        THEN << value[1] \div 4, (value[1] % 4) * 16 + (value[2] \div 16),
                (value[2] % 16) * 4, B64Pad >>
        ELSE << value[1] \div 4, (value[1] % 4) * 16 + (value[2] \div 16),
                (value[2] % 16) * 4 + (value[3] \div 64), value[3] % 64 >>
             \o base64_encode(SubSeq(value, 4, n))

B64Decoded(b) == [ok |-> TRUE, bytes |-> b]
B64Fail == [ok |-> FALSE, bytes |-> <<>>]

RECURSIVE B64Quads(_)
\* the bytes of a text whose length is a multiple of four
B64Quads(s) ==
    IF s = <<>> THEN B64Decoded(<<>>)
    ELSE LET q == SubSeq(s, 1, 4)
             final == Len(s) = 4
             b1 == q[1] * 4 + (q[2] \div 16)
             b2 == (q[2] % 16) * 16 + (q[3] \div 4)
             b3 == (q[3] % 4) * 64 + q[4]
         IN  IF q[1] = B64Pad \/ q[2] = B64Pad THEN B64Fail
             ELSE IF q[3] = B64Pad
             THEN IF final /\ q[4] = B64Pad THEN B64Decoded(<<b1>>) ELSE B64Fail
             ELSE IF q[4] = B64Pad
             THEN IF final THEN B64Decoded(<<b1, b2>>) ELSE B64Fail
             ELSE LET rest == B64Quads(SubSeq(s, 5, Len(s)))
                  IN  IF rest.ok THEN B64Decoded(<<b1, b2, b3>> \o rest.bytes)
                      ELSE B64Fail

base64_decode(value) ==
    LET s == SelectSeq(value, LAMBDA c : c <= B64Pad)
    IN  IF Len(s) % 4 # 0 THEN B64Fail ELSE B64Quads(s)

(***************************************************************************)
(* Display string of a value (str(object)) as character codes.             *)
(***************************************************************************)
RECURSIVE StrInts(_)
StrInts(s) ==
    IF s = <<>> THEN <<>>
    ELSE IF Len(s) = 1 THEN <<48 + s[1]>>
    ELSE <<48 + s[1], 44, 32>> \o StrInts(Tail(s))

StrOf(v) ==
    CASE v.kind = "none"  -> <<78, 111, 110, 101>>
      [] v.kind = "int"   -> <<48 + v.n>>
      [] v.kind = "list"  -> <<91>> \o StrInts(v.items) \o <<93>>
      [] v.kind = "dict"  -> <<123>> \o StrInts(v.items) \o <<125>>
      [] v.kind = "table" -> <<68, 70, 48 + v.rows>>
      [] OTHER            -> <<>>

\* json.dumps raises TypeError on an object that is no JSON value
JsonSerializable(v) == v.kind \in {"none", "int", "list", "dict"}

(***************************************************************************)
(* Messages: the decoded JSON command documents.  A field that is not in   *)
(* the document holds "-" (strings), -1 (num_instances) or is flagged by   *)
(* hasHeader / hasValue.                                                   *)
(***************************************************************************)
NoScript == [outcome |-> "-", prints |-> 0, defines |-> "-"]

\* what running a script does: how it ends ("ok", "exception" for a raised
\* Exception, "exit" for SystemExit/KeyboardInterrupt), how many lines it
\* prints and which variable it assigns
Scripts ==
    [outcome : {"ok", "exception", "exit"}, prints : 0..1, defines : {"-"}]
    \cup [outcome : {"ok", "exception", "exit"}, prints : {0}, defines : {"x"}]

Blank ==
    [command |-> "-", hasHeader |-> FALSE, hdrName |-> "-", num |-> -1,
     frame_name |-> "-", script |-> NoScript, variable_name |-> "-",
     variable_encoding |-> "-", hasValue |-> FALSE, variable_value |-> <<>>,
     debug |-> FALSE]

Cmd(c) == [Blank EXCEPT !.command = c]

\* values the host stores with set_variable_value
HostValues == {PyNone, PyInt(1), PyDict({"k"}, <<1, 0>>)}

\* the opaque-codec encoding and its inverse, as the host computes them
HostEncode(p3, v) ==
    IF p3 THEN base64_encode(pickle_dumps(v)) ELSE pickle_dumps(v)

HostDecode(p3, text) ==
    IF p3
    THEN LET d == base64_decode(text)
         IN  IF d.ok THEN pickle_loads(d.bytes) ELSE UnpickleFail
    ELSE pickle_loads(text)

\* a variable_value that is no encoding of anything
Garbage == <<1, 2, 3>>

PutMsgs ==
    { [Cmd("put_instances") EXCEPT !.hasHeader = TRUE, !.hdrName = f,
                                   !.num = n] :
        f \in FrameNames, n \in -1..MaxRows }
    \cup { [Cmd("put_instances") EXCEPT !.hasHeader = TRUE, !.hdrName = f,
                                        !.num = n, !.debug = TRUE] :
             f \in FrameNames, n \in 1..MaxRows }
    \cup { [Cmd("put_instances") EXCEPT !.hasHeader = TRUE, !.num = 1] }
    \cup { [Cmd("put_instances") EXCEPT !.num = n] : n \in {-1, 1} }

GetMsgs ==
    { [Cmd("get_instances") EXCEPT !.frame_name = f] : f \in Names \cup {"-"} }
    \cup { [Cmd("get_instances") EXCEPT !.frame_name = f, !.debug = TRUE] :
             f \in FrameNames }

ScriptMsgs ==
    { [Cmd("execute_script") EXCEPT !.script = s] : s \in Scripts }
    \cup { [Cmd("execute_script") EXCEPT !.script = s, !.debug = TRUE] :
             s \in {t \in Scripts : t.outcome = "ok" /\ t.prints = 1} }
    \cup { Cmd("execute_script") }

Encodings == {"pickled", "json", "string"}

GetVarMsgs ==
    { [Cmd("get_variable_value") EXCEPT !.variable_name = x,
                                        !.variable_encoding = e] :
        x \in Names, e \in Encodings \cup {"xml"} }
    \cup { [Cmd("get_variable_value") EXCEPT !.variable_name = "x",
                                        !.variable_encoding = e,
                                        !.debug = TRUE] :
             e \in {"pickled", "json"} }
    \cup { [Cmd("get_variable_value") EXCEPT !.variable_encoding = e] :
             e \in {"pickled", "xml"} }
    \cup { [Cmd("get_variable_value") EXCEPT !.variable_name = x] :
             x \in {"x", "-"} }

IsSetMsgs ==
    { [Cmd("variable_is_set") EXCEPT !.variable_name = x] :
        x \in Names \cup {"-"} }

SetVarMsgs(p3) ==
    { [Cmd("set_variable_value") EXCEPT !.variable_name = x, !.hasValue = TRUE,
                                        !.variable_value = w,
                                        !.variable_encoding = "pickled"] :
        x \in SetNames,
        w \in {HostEncode(p3, v) : v \in HostValues} \cup {Garbage} }
    \cup { [Cmd("set_variable_value") EXCEPT !.variable_name = "x",
                                        !.hasValue = TRUE,
                                        !.variable_value = HostEncode(p3, PyInt(1)),
                                        !.variable_encoding = e] :
             e \in {"json", "-"} }
    \cup { [Cmd("set_variable_value") EXCEPT !.hasValue = TRUE,
                                        !.variable_value = HostEncode(p3, PyInt(1)),
                                        !.variable_encoding = e] :
             e \in {"pickled", "json"} }
    \cup { [Cmd("set_variable_value") EXCEPT !.variable_name = "x",
                                        !.variable_encoding = e] :
             e \in {"pickled", "json"} }

\* every message the host may send
Msgs(p3) ==
    PutMsgs \cup GetMsgs \cup ScriptMsgs \cup GetVarMsgs \cup IsSetMsgs
    \cup SetVarMsgs(p3)
    \cup { Cmd("get_debug_buffer"), Cmd("shutdown"), Cmd("restart"), Blank }

\* frames on the wire towards the worker
JsonFrame(m) == [kind |-> "json", msg |-> m, rows |-> 0]
RawFrame(r)  == [kind |-> "raw", msg |-> Blank, rows |-> r]

\* what the host writes for a message: put_instances with a positive row
\* count is followed by the raw CSV frame
HostFrames(m) ==
    IF m.command = "put_instances" /\ m.num > 0
    THEN << JsonFrame(m), RawFrame(m.num) >>
    ELSE << JsonFrame(m) >>

(***************************************************************************)
(* The state of the worker process and of its connection.                  *)
(***************************************************************************)
VARIABLES
    global_python3,   \* _global_python3: the interpreter is Python 3
    startup_debug,    \* _global_startup_debug: argv[2] = 'debug'
    pc,               \* "wait" in the dispatch loop; else how the loop was left
    inbuf,            \* frames the host wrote that no handler has read
    env,              \* _local_env
    out,              \* contents of the buffer sys.stdout refers to (print ids)
    err,              \* contents of the buffer sys.stderr refers to
    clock,            \* number of prints to the process's sys.stdout so far
    sent,             \* frames sent while handling the last received frame
    last,             \* the message handled last
    prev,             \* the message handled before it, when PrevOf keeps it
    defined,          \* names some command has assigned in _local_env
    mark,             \* value of clock at the last get_debug_buffer before last
    replaced,         \* the slots of sys in which the last handler left
                      \* another buffer object than it found
    \* receive_message, one transport read at a time
    stream,           \* bytes the host wrote that no recv has returned yet
    rpc,              \* "len", "data": the loop receive_message is in
    length,           \* the local length
    size,             \* the local size
    data,             \* the local data
    hostFrame,        \* payload bytes of the frame the host wrote first
    closed,           \* the host has closed its end of the connection
    polls,            \* parity of the recv calls that returned no bytes
    \* send_response
    sentText,         \* the text handed to the last send_response
    sentJson,         \* its isJson argument
    wire,             \* the two byte strings that send_response wrote
    \* instances_to_header_message, one column of the frame
    colType,          \* frame.dtypes[att_name]
    colData,          \* frame[att_name], the cells in row order
    attribute         \* the attribute built for the column

loopVars == << startup_debug, pc, inbuf, env, out, err, clock, sent, last,
               prev, defined, mark, replaced >>
recvVars == << stream, rpc, length, size, data, hostFrame, closed, polls >>
sendVars == << sentText, sentJson, wire >>
headVars == << colType, colData, attribute >>

vars == << global_python3, loopVars, recvVars, sendVars, headVars >>

(***************************************************************************)
(* Responses.  fields is the set of keys of the JSON document.             *)
(***************************************************************************)
NoValue == [form |-> "-", text |-> <<>>, obj |-> Absent]

Resp0 ==
    [response |-> "-", error_message |-> <<>>, variable_name |-> "-",
     variable_exists |-> FALSE, variable_encoding |-> "-",
     variable_value |-> NoValue, script_out |-> <<>>, script_error |-> <<>>,
     std_out |-> <<>>, std_err |-> <<>>, num_instances |-> -1,
     relation_name |-> "-", rows |-> -1, fields |-> {}]

PidResponse == [Resp0 EXCEPT !.response = "pid_response",
                             !.fields = {"response", "pid"}]

OkResponse == [Resp0 EXCEPT !.response = "ok", !.fields = {"response"}]

ErrResponse(message) ==
    [Resp0 EXCEPT !.response = "error", !.error_message = message,
                  !.fields = {"response", "error_message"}]

\* a raw (non-JSON) frame carrying CSV rows
RawResponse(r) == [Resp0 EXCEPT !.response = "raw", !.rows = r]

(***************************************************************************)
(* A handler is an operator from the message to the state it leaves:       *)
(* St is the state a handler starts in, with nothing sent yet.             *)
(***************************************************************************)
\* the two slots that hold the capture buffers: sys.stdout and sys.stderr
Slots == {"stdout", "stderr"}

St ==
    [env |-> env, out |-> out, err |-> err, clock |-> clock, sent |-> <<>>,
     pc |-> "wait", take |-> 0, defs |-> {}, replaced |-> {}]

\* send_response(response, isJson) on the connection
Sending(e, r) == [e EXCEPT !.sent = Append(@, r)]

ack_command_ok(e) == Sending(e, OkResponse)

ack_command_err(e, message) == Sending(e, ErrResponse(message))

\* an exception nobody catches: runServer's finally closes the connection
Raise(e) == [e EXCEPT !.pc = "exception"]

\* print(...) while sys.stdout is the capture buffer
Printing(e) == [e EXCEPT !.out = Append(@, e.clock + 1), !.clock = @ + 1]

message_debug(message) == message.debug

get_variable(var_name) ==
    IF env[var_name].kind = "absent" THEN PyNone ELSE env[var_name]

\* pd.read_csv on the raw frame
read_csv(frame) == DataFrame(frame.rows)

receive_instances(message) ==
    IF message.hasHeader
    THEN IF message.hdrName = "-" \/ env["headers"].kind # "dict"
         THEN Raise(St)
         ELSE LET e1 == [St EXCEPT !.env["headers"].keys =
                                      @ \cup {message.hdrName}]
              IN  IF message.num = -1 THEN Raise(e1)
                  ELSE IF message.num > 0
                  THEN LET e2 == [e1 EXCEPT
                                    !.env[message.hdrName] = read_csv(HostFrames(message)[2]),
                                    !.take = 1,
                                    !.defs = {message.hdrName}]
                           e3 == IF message_debug(message) THEN Printing(e2)
                                 ELSE e2
                       IN  ack_command_ok(e3)
                  ELSE ack_command_ok(e1)
    ELSE ack_command_err(St,
           <<"put instances json message does not contain a header entry!">>)

instances_to_header_message(frame_name, frame) == frame_name

send_instances(message) ==
    IF message.frame_name = "-" THEN Raise(St)
    ELSE LET frame_name == message.frame_name
             frame == get_variable(frame_name)
         IN  IF frame.kind # "table"
             THEN \* the error is acknowledged, then len(frame.index) raises
                  Raise(ack_command_err(St,
                    <<"Variable ", frame_name,
                      IF frame.kind = "none" THEN " is not defined"
                      ELSE " is not a DataFrame object">>))
             ELSE LET e1 == ack_command_ok(St)
                      response ==
                        [Resp0 EXCEPT
                           !.response = "instances_header",
                           !.num_instances = frame.rows,
                           !.relation_name =
                              instances_to_header_message(frame_name, frame),
                           !.fields = {"response", "num_instances", "header"}]
                      e2 == IF message_debug(message) THEN Printing(e1) ELSE e1
                  IN  Sending(Sending(e2, response), RawResponse(frame.rows))

\* execute_script with the failure answered by an error response
execute_script_err(message) ==
    IF message.script # NoScript
    THEN LET script == message.script
             e0 == IF message_debug(message) THEN Printing(St) ELSE St
             e1 == IF script.defines = "-" THEN e0
                   ELSE [e0 EXCEPT !.env[script.defines] = PyInt(2),
                                   !.defs = {script.defines}]
             printed == [i \in 1..script.prints |-> "line"]
         IN  IF script.outcome = "exit"
             THEN [e1 EXCEPT !.pc = "script_exit", !.replaced = Slots]
             ELSE IF script.outcome = "exception"
             THEN ack_command_err(e1, <<"traceback">>)
             ELSE Sending(e1, [Resp0 EXCEPT
                    !.response = "ok", !.script_out = printed,
                    !.fields = {"response", "script_out", "script_error"}])
    ELSE ack_command_err(St,
           <<"execute script json message does not contain a script entry!">>)

\* execute_script without the try/except around exec
execute_script_uncaught(message) ==
    IF message.script # NoScript
    THEN LET script == message.script
             e0 == IF message_debug(message) THEN Printing(St) ELSE St
             e1 == IF script.defines = "-" THEN e0
                   ELSE [e0 EXCEPT !.env[script.defines] = PyInt(2),
                                   !.defs = {script.defines}]
             printed == [i \in 1..script.prints |-> "line"]
         IN  IF script.outcome = "exit"
             THEN [e1 EXCEPT !.pc = "script_exit", !.replaced = Slots]
             ELSE IF script.outcome = "exception"
             THEN Raise(e1)
             ELSE Sending(e1, [Resp0 EXCEPT
                    !.response = "ok", !.script_out = printed,
                    !.fields = {"response", "script_out", "script_error"}])
    ELSE ack_command_err(St,
           <<"execute script json message does not contain a script entry!">>)

\* execute_script that leaves its own buffers in sys.stdout and sys.stderr
execute_script_unrestored(message) ==
    IF message.script # NoScript
    THEN LET script == message.script
             e0 == IF message_debug(message) THEN Printing(St) ELSE St
             e1 == IF script.defines = "-" THEN e0
                   ELSE [e0 EXCEPT !.env[script.defines] = PyInt(2),
                                   !.defs = {script.defines}]
             printed == [i \in 1..script.prints |-> "line"]
             output == IF script.outcome = "exception"
                       THEN Append(printed, "Got an exception executing script")
                       ELSE printed
             error == IF script.outcome = "exception" THEN <<"traceback">>
                      ELSE <<>>
         IN  IF script.outcome = "exit"
             THEN [e1 EXCEPT !.pc = "script_exit", !.replaced = Slots]
             ELSE Sending([e1 EXCEPT !.replaced = Slots], [Resp0 EXCEPT
                    !.response = "ok", !.script_out = output,
                    !.script_error = error,
                    !.fields = {"response", "script_out", "script_error"}])
    ELSE ack_command_err(St,
           <<"execute script json message does not contain a script entry!">>)

execute_script(message) ==
    IF message.script # NoScript
    THEN LET script == message.script
             e0 == IF message_debug(message) THEN Printing(St) ELSE St
             \* exec(script, _global_env, _local_env)
             e1 == IF script.defines = "-" THEN e0
                   ELSE [e0 EXCEPT !.env[script.defines] = PyInt(2),
                                   !.defs = {script.defines}]
             printed == [i \in 1..script.prints |-> "line"]
             output == IF script.outcome = "exception"
                       THEN Append(printed, "Got an exception executing script")
                       ELSE printed
             error == IF script.outcome = "exception" THEN <<"traceback">>
                      ELSE <<>>
         IN  IF script.outcome = "exit"
             THEN \* SystemExit passes "except Exception": output and error
                  \* stay in sys.stdout and sys.stderr
                  [e1 EXCEPT !.pc = "script_exit", !.replaced = Slots]
             ELSE \* sys.stdout = tOut, sys.stderr = tErr: the slots hold
                  \* the buffers the handler found
                  Sending(e1, [Resp0 EXCEPT
                    !.response = "ok", !.script_out = output,
                    !.script_error = error,
                    !.fields = {"response", "script_out", "script_error"}])
    ELSE ack_command_err(St,
           <<"execute script json message does not contain a script entry!">>)

send_variable_is_set(message) ==
    IF message.variable_name # "-"
    THEN LET var_name == message.variable_name
             var_value == get_variable(var_name)
         IN  Sending(St, [Resp0 EXCEPT
               !.response = "ok", !.variable_name = var_name,
               !.variable_exists = (var_value.kind # "none"),
               !.fields = {"response", "variable_name", "variable_exists"}])
    ELSE ack_command_err(St,
           <<"object exists json message does not contain a variable_name entry!">>)

send_encoded_variable_value(message) ==
    IF message.variable_name # "-"
    THEN LET var_name == message.variable_name
             object == get_variable(var_name)
             encoding == message.variable_encoding
             encoded_object ==
               CASE encoding = "pickled" ->
                      [NoValue EXCEPT !.form = "text",
                         !.text = IF global_python3
                                  THEN base64_encode(pickle_dumps(object))
                                  ELSE pickle_dumps(object)]
                 [] encoding = "json" ->
                      [NoValue EXCEPT !.form = "json", !.obj = object]
                 [] OTHER ->
                      [NoValue EXCEPT !.form = "text", !.text = StrOf(object)]
             e1 == IF message_debug(message) THEN Printing(St) ELSE St
         IN  IF object.kind # "none"
             THEN IF encoding = "json" /\ ~JsonSerializable(object)
                  THEN Raise(e1)
                  ELSE Sending(e1, [Resp0 EXCEPT
                         !.response = "ok", !.variable_name = var_name,
                         !.variable_encoding = encoding,
                         !.variable_value = encoded_object,
                         !.fields = {"response", "variable_name",
                                     "variable_encoding", "variable_value"}])
             ELSE ack_command_err(St, <<var_name, " does not exist!">>)
    ELSE ack_command_err(St,
           <<"get variable value json message does not contain a variable_name entry!">>)

send_variable_value(message) ==
    IF message.variable_encoding # "-"
    THEN IF message.variable_encoding \in {"pickled", "json", "string"}
         THEN send_encoded_variable_value(message)
         ELSE ack_command_err(St,
                <<"Unknown encoding type for send variable value message">>)
    ELSE ack_command_err(St,
           <<"send variable value message does not contain an encoding field">>)

receive_pickled_variable_value(message) ==
    IF message.variable_name # "-" /\ message.hasValue
    THEN LET var_name == message.variable_name
             decoded == IF global_python3
                        THEN base64_decode(message.variable_value)
                        ELSE B64Decoded(message.variable_value)
             object == pickle_loads(decoded.bytes)
         IN  IF ~decoded.ok \/ ~object.ok THEN Raise(St)
             ELSE ack_command_ok([St EXCEPT !.env[var_name] = object.val,
                                            !.defs = {var_name}])
    ELSE ack_command_err(St,
           <<"put variable value json message does not contain a variable_name or variable_value entry!">>)

receive_variable_value(message) ==
    IF message.variable_encoding # "-"
    THEN IF message.variable_encoding = "pickled"
         THEN receive_pickled_variable_value(message)
         ELSE St
    ELSE ack_command_err(St,
           <<"receive variable value message does not contain an encoding field">>)

\* send_debug_buffer without the fresh StringIO buffers
send_debug_buffer_keep(message) ==
    Sending(St,
            [Resp0 EXCEPT !.response = "ok", !.std_out = out, !.std_err = err,
                          !.fields = {"response", "std_out", "std_err"}])

send_debug_buffer(message) ==
    Sending([St EXCEPT !.out = <<>>, !.err = <<>>, !.replaced = Slots],
            [Resp0 EXCEPT !.response = "ok", !.std_out = out, !.std_err = err,
                          !.fields = {"response", "std_out", "std_err"}])

\* the shutdown branch with an acknowledgement before exit()
shutdown_ack(message) ==
    [ack_command_ok(IF startup_debug THEN Printing(St) ELSE St)
       EXCEPT !.pc = "shutdown"]

\* the shutdown branch of runServer: exit()
shutdown(message) ==
    [(IF startup_debug THEN Printing(St) ELSE St) EXCEPT !.pc = "shutdown"]

\* a command string answered by an error
unknown_command_err(message) == ack_command_err(St, <<"Unknown command">>)

\* a command string no branch of runServer matches
unknown_command(message) == St

\* the else branch with an error response
no_command_err(message) ==
    ack_command_err(IF startup_debug THEN Printing(St) ELSE St,
                    <<"message did not contain a command field!">>)

\* the else branch of runServer: no command field
no_command(message) == IF startup_debug THEN Printing(St) ELSE St

(***************************************************************************)
(* The dispatch loop of runServer.                                         *)
(***************************************************************************)
Recognized ==
    {"put_instances", "get_instances", "execute_script", "get_variable_value",
     "variable_is_set", "set_variable_value", "get_debug_buffer", "shutdown"}

\* markers for last: nothing handled yet, and a frame that was no JSON text
StartMsg == Cmd("#start")
RawMsg   == Cmd("#raw")

\* an upper bound of the prints to sys.stdout that handling m causes
PrintsOf(m) ==
    (IF m.debug THEN 1 ELSE 0)
    + (IF startup_debug /\ m.command \in {"-", "shutdown"} THEN 1 ELSE 0)

\* the parts of the state a specification does not use
RecvIdle ==
    /\ stream = <<>> /\ rpc = "idle" /\ length = <<>> /\ size = 0
    /\ data = <<>> /\ hostFrame = <<>> /\ closed = FALSE /\ polls = 0

SendIdle == sentText = <<>> /\ sentJson = FALSE /\ wire = << <<>>, <<>> >>

\* no attribute built
NoAttribute == [type |-> "-", values |-> <<>>]

HeadIdle == colType = "-" /\ colData = <<>> /\ attribute = NoAttribute

LoopIdle ==
    /\ startup_debug = FALSE /\ pc = "idle" /\ inbuf = <<>>
    /\ env = [n \in Names |-> Absent] /\ out = <<>> /\ err = <<>>
    /\ clock = 0 /\ sent = <<>> /\ last = Blank /\ prev = Blank
    /\ defined = {} /\ mark = 0 /\ replaced = {}

Init ==
    /\ global_python3 \in BOOLEAN
    /\ startup_debug \in BOOLEAN
    /\ pc = "wait"
    /\ inbuf = <<>>
    /\ env = [n \in Names |-> IF n = "headers" THEN PyDict({}, <<>>) ELSE Absent]
    /\ out = IF startup_debug THEN <<1>> ELSE <<>>
    /\ err = <<>>
    /\ clock = IF startup_debug THEN 1 ELSE 0
    /\ sent = <<PidResponse>>
    /\ last = StartMsg
    /\ prev = Blank
    /\ defined = {}
    /\ mark = 0
    /\ replaced = Slots
    /\ RecvIdle
    /\ SendIdle
    /\ HeadIdle

\* history kept for the properties: the previous message when it was a
\* complete set_variable_value in the pickled encoding or a put_instances
\* with a header naming the dataset and a row count, and a mark when it
\* was a script that raised
FailedScript ==
    [Cmd("execute_script") EXCEPT
       !.script = [NoScript EXCEPT !.outcome = "exception"]]

PrevOf(m) ==
    IF m.command = "set_variable_value" /\ m.variable_encoding = "pickled"
       /\ m.variable_name # "-" /\ m.hasValue
    THEN m
    ELSE IF m.command = "put_instances" /\ m.hdrName # "-" /\ m.num >= 0
    THEN [m EXCEPT !.debug = FALSE]
    ELSE IF m.command = "execute_script" /\ m.script.outcome = "exception"
    THEN FailedScript
    ELSE Blank

\* one turn of the loop on the frames the host wrote for message m:
\* receive_message(True), then the branch for the command, which leaves e
Dispatch(m, e) ==
    /\ env' = e.env
    /\ out' = e.out
    /\ err' = e.err
    /\ clock' = e.clock
    /\ sent' = e.sent
    /\ pc' = e.pc
    /\ inbuf' = SubSeq(HostFrames(m), 2 + e.take, Len(HostFrames(m)))
    /\ last' = m
    /\ prev' = PrevOf(last)
    /\ defined' = defined \cup e.defs
    /\ replaced' = e.replaced
    /\ mark' = IF last.command = "get_debug_buffer" THEN clock ELSE mark
    /\ UNCHANGED << global_python3, startup_debug, recvVars, sendVars,
                    headVars >>

\* the worker waits in receive_message(True) and the host sends m
Receiving(m) ==
    /\ pc = "wait"
    /\ inbuf = <<>>
    /\ clock + PrintsOf(m) <= MaxOut

put_instances ==
    \E m \in PutMsgs :
        Receiving(m) /\ Dispatch(m, receive_instances(m))

get_instances ==
    \E m \in GetMsgs :
        Receiving(m) /\ Dispatch(m, send_instances(m))

run_script ==
    \E m \in ScriptMsgs :
        Receiving(m) /\ Dispatch(m, execute_script(m))

get_variable_value ==
    \E m \in GetVarMsgs :
        Receiving(m) /\ Dispatch(m, send_variable_value(m))

variable_is_set ==
    \E m \in IsSetMsgs :
        Receiving(m) /\ Dispatch(m, send_variable_is_set(m))

set_variable_value ==
    \E m \in SetVarMsgs(global_python3) :
        Receiving(m) /\ Dispatch(m, receive_variable_value(m))

get_debug_buffer ==
    \E m \in {Cmd("get_debug_buffer")} :
        Receiving(m) /\ Dispatch(m, send_debug_buffer(m))

do_shutdown ==
    \E m \in {Cmd("shutdown")} :
        Receiving(m) /\ Dispatch(m, shutdown(m))

missing_command ==
    \E m \in {Blank} :
        Receiving(m) /\ Dispatch(m, no_command(m))

other_command ==
    \E m \in {Cmd("restart")} :
        Receiving(m) /\ Dispatch(m, unknown_command(m))

\* receive_message(True) reads a raw CSV frame that the put_instances
\* handler left unread: json.loads raises
bad_frame ==
    /\ pc = "wait"
    /\ inbuf # <<>>
    /\ Head(inbuf).kind = "raw"
    /\ env' = env /\ out' = out /\ err' = err /\ clock' = clock
    /\ sent' = <<>>
    /\ pc' = "exception"
    /\ inbuf' = Tail(inbuf)
    /\ last' = RawMsg
    /\ replaced' = {}
    /\ prev' = PrevOf(last)
    /\ mark' = IF last.command = "get_debug_buffer" THEN clock ELSE mark
    /\ UNCHANGED << global_python3, startup_debug, defined, recvVars,
                    sendVars, headVars >>

Next ==
    \/ put_instances
    \/ get_instances
    \/ run_script
    \/ get_variable_value
    \/ variable_is_set
    \/ set_variable_value
    \/ get_debug_buffer
    \/ do_shutdown
    \/ missing_command
    \/ other_command
    \/ bad_frame

Spec == Init /\ [][Next]_vars

(***************************************************************************)
(* The framing layer.  Text is a sequence of character codes (97 is "a",   *)
(* 233 is e-acute, two bytes in UTF-8); a byte is 0..255.                  *)
(***************************************************************************)
\* longest payload text of a received frame, in characters
MaxLen == 2
\* longest text handed to send_response, in characters
MaxText == 4

RECURSIVE utf8_encode(_)
utf8_encode(text) ==
    IF text = <<>> THEN <<>>
    ELSE (IF Head(text) < 128 THEN <<Head(text)>>
          ELSE <<192 + (Head(text) \div 64), 128 + (Head(text) % 64)>>)
         \o utf8_encode(Tail(text))

Utf8Fail == [ok |-> FALSE, text |-> <<>>]

RECURSIVE utf8_decode(_)
\* bytes.decode('utf-8'): raises on a truncated or misplaced byte
utf8_decode(bytes) ==
    IF bytes = <<>> THEN [ok |-> TRUE, text |-> <<>>]
    ELSE IF bytes[1] < 128
    THEN LET rest == utf8_decode(Tail(bytes))
         IN  IF rest.ok THEN [ok |-> TRUE, text |-> <<bytes[1]>> \o rest.text]
             ELSE Utf8Fail
    ELSE IF bytes[1] \in 194..223 /\ Len(bytes) >= 2 /\ bytes[2] \in 128..191
    THEN LET rest == utf8_decode(SubSeq(bytes, 3, Len(bytes)))
         IN  IF rest.ok
             THEN [ok |-> TRUE,
                   text |-> <<(bytes[1] - 192) * 64 + (bytes[2] - 128)>>
                            \o rest.text]
             ELSE Utf8Fail
    ELSE Utf8Fail

\* struct.pack('>L', n) and struct.unpack('>L', b)[0]
struct_pack(n) ==
    << (n \div 16777216) % 256, (n \div 65536) % 256, (n \div 256) % 256,
       n % 256 >>

struct_unpack(b) == b[1] * 16777216 + b[2] * 65536 + b[3] * 256 + b[4]

\* texts of at most n characters
Texts(n) == UNION { [1..k -> {97, 233}] : k \in 0..n }

\* a frame as the host writes it
HostFrame(text) == struct_pack(Len(utf8_encode(text))) \o utf8_encode(text)

(***************************************************************************)
(* receive_message(isJson), up to json.loads: each step is one recv.       *)
(***************************************************************************)
RecvInit ==
    /\ global_python3 \in BOOLEAN
    /\ LoopIdle
    /\ SendIdle
    /\ HeadIdle
    /\ closed = FALSE
    /\ polls = 0
    /\ \E t \in Texts(MaxLen), more \in {<<>>, HostFrame(<<97>>)} :
          /\ hostFrame = utf8_encode(t)
          /\ stream = HostFrame(t) \o more
    /\ rpc = "len"
    /\ length = <<>>
    /\ size = 0
    /\ data = <<>>

\* _global_connection.recv(bufsize) returning k bytes
Recv(k) == SubSeq(stream, 1, k)

\* length += recv(4), and what follows the loop when it ends
recv_length ==
    /\ rpc = "len"
    /\ \E k \in 1..(IF Len(stream) < 4 THEN Len(stream) ELSE 4) :
          LET got == length \o Recv(k)
          IN  /\ length' = got
              /\ stream' = SubSeq(stream, k + 1, Len(stream))
              /\ IF Len(got) < 4
                 THEN rpc' = "len" /\ size' = size
                 ELSE IF Len(got) # 4
                 THEN rpc' = "struct.error" /\ size' = size
                 ELSE /\ size' = struct_unpack(got)
                      /\ rpc' = IF 0 < struct_unpack(got) THEN "data"
                                ELSE "return"
    /\ UNCHANGED << global_python3, loopVars, sendVars, headVars, data,
                    hostFrame, closed, polls >>

\* data += recv(size).decode('utf-8') (Python 3), data += recv(size)
recv_data ==
    /\ rpc = "data"
    /\ \E k \in 1..(IF Len(stream) < size THEN Len(stream) ELSE size) :
          LET chunk == IF global_python3 THEN utf8_decode(Recv(k))
                       ELSE [ok |-> TRUE, text |-> Recv(k)]
              got == data \o chunk.text
          IN  /\ stream' = SubSeq(stream, k + 1, Len(stream))
              /\ IF ~chunk.ok
                 THEN rpc' = "UnicodeDecodeError" /\ data' = data
                 ELSE /\ data' = got
                      /\ rpc' = IF Len(got) < size THEN "data" ELSE "return"
    /\ UNCHANGED << global_python3, loopVars, sendVars, headVars, length,
                    size, hostFrame, closed, polls >>

RecvNext == recv_length \/ recv_data

SpecRecv == RecvInit /\ [][RecvNext]_vars

(***************************************************************************)
(* receive_message on a connection whose other end the host has closed     *)
(* after writing a whole frame, a part of one, or nothing.                 *)
(***************************************************************************)
ClosedInit ==
    /\ global_python3 \in BOOLEAN
    /\ LoopIdle
    /\ SendIdle
    /\ HeadIdle
    /\ closed = TRUE
    /\ polls = 0
    /\ \E t \in Texts(MaxLen) :
          /\ hostFrame = utf8_encode(t)
          /\ \E k \in 0..Len(HostFrame(t)) :
                stream = SubSeq(HostFrame(t), 1, k)
    /\ rpc = "len"
    /\ length = <<>>
    /\ size = 0
    /\ data = <<>>

\* recv on the closed connection with nothing left to read returns b'':
\* length += b'' in the first loop, data += '' in the second, and the
\* loop's condition is tested again
recv_closed ==
    /\ rpc \in {"len", "data"}
    /\ closed
    /\ stream = <<>>
    /\ polls' = 1 - polls
    /\ UNCHANGED << global_python3, loopVars, sendVars, headVars, stream, rpc,
                    length, size, data, hostFrame, closed >>

ClosedNext == recv_length \/ recv_data \/ recv_closed

\* the worker runs on: a loop that can take a turn takes it
SpecClosed == ClosedInit /\ [][ClosedNext]_vars /\ WF_vars(ClosedNext)

\* the bytes of what receive_message returned
Returned == IF global_python3 THEN utf8_encode(data) ELSE data

(***************************************************************************)
(* send_response(response, isJson) for a text: a JSON string when isJson,  *)
(* the raw CSV text otherwise.                                             *)
(***************************************************************************)
RECURSIVE JsonEscape(_)
\* json.dumps escapes what is not ASCII as \uXXXX (ensure_ascii)
JsonEscape(text) ==
    IF text = <<>> THEN <<>>
    ELSE (IF Head(text) < 128 THEN <<Head(text)>>
          ELSE <<92, 117, 48, 48, 101, 57>>)
         \o JsonEscape(Tail(text))

json_dumps(text) == <<34>> \o JsonEscape(text) \o <<34>>

\* len(response): characters of a Python 3 str, bytes of a Python 2 str
PyLen(text) == IF global_python3 THEN Len(text) ELSE Len(utf8_encode(text))

send_response(text, json) ==
    LET r == IF json THEN json_dumps(text) ELSE text
    IN  << struct_pack(PyLen(r)), utf8_encode(r) >>

SendInit ==
    /\ global_python3 \in BOOLEAN
    /\ LoopIdle
    /\ RecvIdle
    /\ SendIdle
    /\ HeadIdle

send ==
    /\ \E t \in Texts(MaxText), j \in BOOLEAN :
          /\ sentText' = t
          /\ sentJson' = j
          /\ wire' = send_response(t, j)
    /\ UNCHANGED << global_python3, loopVars, recvVars, headVars >>

SendNext == send

SpecSend == SendInit /\ [][SendNext]_vars

(***************************************************************************)
(* instances_to_header_message: the attribute built for one column.  A     *)
(* cell is a label or NaN, the missing value.                              *)
(***************************************************************************)
\* most rows of the frame
MaxCol == 3

NaN == "nan"
Cells == {"a", "b", NaN}
DTypes == {"object", "bool", "int64", "datetime64[ns]"}

\* the columns of a dtype: only an object column holds missing values
Columns(type) ==
    { c \in UNION { [1..k -> Cells] : k \in 0..MaxCol } :
        type = "object" \/ \A i \in 1..Len(c) : c[i] # NaN }

\* math.isnan(s), False when it raises (a str)
is_nan(s) == s = NaN

RECURSIVE unique(_)
\* Series.unique(): the distinct cells in order of first appearance, NaN
\* among them
unique(cells) ==
    IF cells = <<>> THEN <<>>
    ELSE LET before == unique(SubSeq(cells, 1, Len(cells) - 1))
             val == cells[Len(cells)]
         IN  IF \E i \in 1..Len(before) : before[i] = val THEN before
             ELSE Append(before, val)

\* distinct.size < num_rows / 2: "/" divides exactly in Python 3 and
\* rounds down on two ints in Python 2
less_than_half(n, num_rows) ==
    IF global_python3 THEN 2 * n < num_rows ELSE n < num_rows \div 2

\* the body of the loop over frame.dtypes.index
header_attribute(type, cells) ==
    IF type \in {"object", "bool"}
    THEN LET distinct == unique(cells)
             nom_vals == SelectSeq(distinct, LAMBDA val : ~is_nan(val))
         IN  IF less_than_half(Len(distinct), Len(cells))
             THEN [type |-> "NOMINAL", values |-> nom_vals]
             ELSE [type |-> "STRING", values |-> <<>>]
    ELSE IF type = "datetime64[ns]"
    THEN [type |-> "DATE", values |-> <<>>]
    ELSE [type |-> "NUMERIC", values |-> <<>>]

HeaderInit ==
    /\ global_python3 \in BOOLEAN
    /\ LoopIdle
    /\ RecvIdle
    /\ SendIdle
    /\ colType \in DTypes
    /\ colData \in Columns(colType)
    /\ attribute = NoAttribute

build_attribute ==
    /\ attribute = NoAttribute
    /\ attribute' = header_attribute(colType, colData)
    /\ UNCHANGED << global_python3, loopVars, recvVars, sendVars, colType,
                    colData >>

HeaderNext == build_attribute

SpecHeader == HeaderInit /\ [][HeaderNext]_vars

(***************************************************************************)
(* Properties.                                                             *)
(***************************************************************************)
\* the number of ok/error acknowledgement frames among the frames s
AckCount(s) ==
    Cardinality({ i \in 1..Len(s) : s[i].response \in {"ok", "error"} })

\* C1: for every recognized command other than shutdown, whatever its fields,
\* the worker has sent exactly one ok/error acknowledgement frame when it
\* goes back to waiting for the next command.
C1_ExactlyOneAck ==
    (pc = "wait" /\ last.command \in Recognized \ {"shutdown"})
        => AckCount(sent) = 1

\* C2: when no transport read or write fails, the worker leaves the dispatch
\* loop only because it received a shutdown command.
C2_OnlyShutdownEndsSession ==
    pc # "wait" => last.command = "shutdown"

\* a recognized command that lacks a field it requires
MissingRequired(m) ==
    \/ m.command = "put_instances" /\ (~m.hasHeader \/ m.num = -1)
    \/ m.command = "get_instances" /\ m.frame_name = "-"
    \/ m.command = "execute_script" /\ m.script = NoScript
    \/ m.command = "get_variable_value"
         /\ (m.variable_name = "-" \/ m.variable_encoding = "-")
    \/ m.command = "variable_is_set" /\ m.variable_name = "-"
    \/ m.command = "set_variable_value"
         /\ (m.variable_name = "-" \/ ~m.hasValue \/ m.variable_encoding = "-")

\* C3: a recognized command that lacks a required field is answered with one
\* structured error response, and the worker goes on to read the next command.
C3_MissingFieldIsAnError ==
    MissingRequired(last)
        => (pc = "wait" /\ Len(sent) = 1 /\ sent[1].response = "error")

\* C4: however the transport splits the byte stream into reads,
\* receive_message decodes the frame's length N and returns exactly the
\* frame's N payload bytes.
C4_FrameReconstructed ==
    rpc \in {"return", "struct.error", "UnicodeDecodeError"}
        => (rpc = "return" /\ size = Len(hostFrame) /\ Returned = hostFrame)

\* C5: the 4-byte big-endian length prefix of every frame the worker sends,
\* structured or raw, equals the number of payload bytes written after it.
C5_PrefixIsByteLength ==
    wire[1] # <<>> => struct_unpack(wire[1]) = Len(wire[2])

C8_IsSetFollowsDefinition ==
    (last.command = "variable_is_set" /\ last.variable_name # "-")
        => /\ Len(sent) = 1
           /\ last.variable_name \notin defined => ~sent[1].variable_exists
           /\ (prev.command = "set_variable_value"
                 /\ prev.variable_name = last.variable_name)
                 => sent[1].variable_exists

\* C9: set_variable_value(x, encoding of v) followed by get_variable_value(x)
\* in the opaque-codec encoding answers ok with a variable_value that decodes
\* to v.
C9_PickledRoundTrip ==
    (/\ prev.command = "set_variable_value"
     /\ last.command = "get_variable_value"
     /\ last.variable_encoding = "pickled"
     /\ last.variable_name = prev.variable_name)
        => /\ Len(sent) = 1
           /\ sent[1].response = "ok"
           /\ HostDecode(global_python3, sent[1].variable_value.text).ok
           /\ HostDecode(global_python3, sent[1].variable_value.text)
                = HostDecode(global_python3, prev.variable_value)

\* C10: get_debug_buffer returns in std_out/std_err exactly the output
\* captured since the previous get_debug_buffer (since process start for the
\* first), and nothing that an earlier call already returned.
C10_DrainSincePreviousCall ==
    last.command = "get_debug_buffer"
        => /\ Len(sent) = 1
           /\ sent[1].response = "ok"
           /\ sent[1].std_out = [i \in 1..(clock - mark) |-> mark + i]
           /\ sent[1].std_err = <<>>
           /\ out = <<>>

C10_Witness ==
    /\ last.command = "get_debug_buffer"
    /\ mark > 0
    /\ Len(sent) = 1
    /\ sent[1].std_out # <<>>

\* C11: on a shutdown command, in any state, the worker sends no frame and
\* leaves the loop for good (exit(), then the finally clause closes the
\* connection); once it has shut down it takes no further step and sends
\* no further frame
C11_ShutdownEndsSilently ==
    /\ [](last.command = "shutdown" => sent = <<>> /\ pc = "shutdown")
    /\ [][pc = "shutdown" => pc' = "shutdown" /\ sent' = <<>>]_vars

\* a shutdown received with a variable in the environment and captured output
C11_Witness ==
    /\ pc = "shutdown" /\ last.command = "shutdown"
    /\ defined # {} /\ out # <<>>

\* C12: get_instances for a variable that is absent or is no table sends the
\* error acknowledgement, then an instances_header frame and a raw data
\* frame, and goes back to waiting
C12_ErrorThenHeaderAndData ==
    (/\ last.command = "get_instances"
     /\ last.frame_name # "-"
     /\ env[last.frame_name].kind # "table")
    => /\ Len(sent) = 3
       /\ sent[1].response = "error"
       /\ sent[2].response = "instances_header"
       /\ sent[3].response = "raw"
       /\ pc = "wait"

\* C13: a get_instances for relation R that follows a put_instances for R
\* with n >= 0 rows (which was acknowledged ok) is answered ok and its
\* header reports num_instances = n, whatever R held before
C13_RowCountRoundTrip ==
    (/\ prev.command = "put_instances"
     /\ prev.hdrName # "-"
     /\ prev.num >= 0
     /\ last.command = "get_instances"
     /\ last.frame_name = prev.hdrName)
    => /\ Len(sent) >= 2
       /\ sent[1].response = "ok"
       /\ sent[2].response = "instances_header"
       /\ sent[2].num_instances = prev.num

\* the distinct non-missing cells of the column, in first-seen order
NonMissing == SelectSeq(unique(colData), LAMBDA val : val # NaN)

\* C14: a textual or boolean column is classified NOMINAL exactly when twice
\* the number of its distinct non-missing values is less than the row
\* count, and STRING otherwise; the values of a NOMINAL attribute are the
\* distinct non-missing values in first-seen order
C14_NominalRule ==
    (attribute # NoAttribute /\ colType \in {"object", "bool"})
    => /\ attribute.type \in {"NOMINAL", "STRING"}
       /\ attribute.type = "NOMINAL" <=> 2 * Len(NonMissing) < Len(colData)
       /\ attribute.type = "NOMINAL" => attribute.values = NonMissing

\* C15: get_variable_value with both fields present: when the encoding is
\* not recognized or the variable is missing from the environment, the one
\* frame sent is an error (which names the variable when it is missing) and
\* the environment is unchanged; when the encoding is recognized and the
\* variable is defined, the one frame sent is ok and carries variable_name,
\* variable_encoding and variable_value (a value asked for in the json
\* encoding being one that JSON can represent, as the caller must ensure)
C15_GetVariableValue ==
    [][(/\ last'.command = "get_variable_value"
        /\ last'.variable_name # "-"
        /\ last'.variable_encoding # "-"
        /\ (last'.variable_encoding = "json"
              => JsonSerializable(get_variable(last'.variable_name))))
       => LET var_name == last'.variable_name
              encoding == last'.variable_encoding
          IN  /\ Len(sent') = 1
              /\ env' = env
              /\ IF encoding \notin Encodings
                 THEN sent'[1].response = "error"
                 ELSE IF env[var_name].kind = "absent"
                 THEN /\ sent'[1].response = "error"
                      /\ \E i \in 1..Len(sent'[1].error_message) :
                            sent'[1].error_message[i] = var_name
                 ELSE /\ sent'[1].response = "ok"
                      /\ sent'[1].variable_name = var_name
                      /\ sent'[1].variable_encoding = encoding
                      /\ sent'[1].variable_value # NoValue
                      /\ {"variable_name", "variable_encoding",
                           "variable_value"} \subseteq sent'[1].fields
      ]_vars

\* C16: a message without a command field makes the worker send no frame,
\* leaves the environment as it was and the buffers in sys.stdout and
\* sys.stderr the same objects, and the worker waits for the next message
C16_NoCommandNoEffect ==
    [][last' = Blank
       => /\ sent' = <<>>
          /\ env' = env
          /\ replaced' = {}
          /\ inbuf' = <<>>
          /\ pc' = "wait"]_vars

\* a message without a command field handled after a variable was defined
C16_Witness ==
    last = Blank /\ pc = "wait" /\ sent = <<>> /\ defined # {}

\* C17: the frame the worker decodes as a command is never the raw data
\* frame of a put_instances, whatever path the put_instances handler took
C17_NeverDecodesRawFrame == last # RawMsg

\* C19: an execute_script without the debug flag whose script returns or
\* raises leaves sys.stdout and sys.stderr the same buffer objects with the
\* contents they had; what the script printed is in script_out only
C19_ScriptKeepsCaptureBuffers ==
    [][(/\ last'.command = "execute_script"
        /\ last'.script # NoScript
        /\ ~last'.debug
        /\ pc' = "wait")
       => /\ replaced' = {}
          /\ out' = out
          /\ err' = err
          /\ Len(sent') = 1
          /\ \A i \in 1..last'.script.prints :
                sent'[1].script_out[i] = "line"]_vars

\* a script that printed was run while captured output was pending, and
\* that output is still in the buffer
C19_Witness ==
    /\ last.command = "execute_script" /\ ~last.debug
    /\ last.script.prints > 0
    /\ pc = "wait" /\ out # <<>> /\ replaced = {}

\* C20: a message whose command is none of the eight recognized ones makes
\* the worker send no frame, leaves the environment as it was, and the
\* worker waits for the next message
C20_UnknownCommandIgnored ==
    [][last'.command \notin Recognized \cup {"-", "#start", "#raw"}
       => /\ sent' = <<>>
          /\ env' = env
          /\ inbuf' = <<>>
          /\ pc' = "wait"]_vars

\* an unrecognized command handled after a variable was defined
C20_Witness ==
    /\ last.command = "restart" /\ pc = "wait" /\ sent = <<>>
    /\ defined # {}

\* C18: when the host has closed the connection, the worker eventually
\* leaves receive_message (by returning or by raising), whether it was
\* waiting for a frame or had received a part of one
C18_ClosedConnectionEndsReceive == <>(rpc \notin {"len", "data"})

=============================================================================
